---------------------------- MODULE Spec2Model ----------------------------
(***************************************************************************)
(* Model of downtime_pump.py: the script reads a list of recurring         *)
(* downtime rules, matches every schedule entry of every rule against the  *)
(* current date, expands the matching rules into request payloads and      *)
(* posts each payload to Thruk's cmd.cgi with a bounded retry loop.        *)
(*                                                                         *)
(* A run is one behaviour.  The command line (retries, simulation), the    *)
(* downtime file (content) and the clock (now) are chosen in Init and stay *)
(* fixed; the remote's answer to every POST is chosen in the Post action.  *)
(* Python dictionaries are functions whose DOMAIN is the set of keys that  *)
(* are present; strings that the code searches are sequences of            *)
(* one-character strings.                                                  *)
(***************************************************************************)
EXTENDS Integers, Sequences, FiniteSets, TLC

VARIABLES
    retries,      \* options.retries (argparse type=int: any integer)
    simulation,   \* options.simulation
    content,      \* the parsed downtime file: a sequence of rules
    pc,           \* position of the script
    date_object,  \* the datetime the script matches against and rewrites
    i,            \* index in content of the rule the outer loop is at
    j,            \* index of the next schedule entry of that rule
    payload,      \* the per-rule payload dictionary
    downtimes,    \* the list of payloads to deliver
    d,            \* index in downtimes of the payload being delivered
    retry,        \* loop variable of the retry loop
    exit_status,  \* Running while the script runs, then 0 or 1
    \* history variables: they record what happened, no action reads them
    origin,       \* for each element of downtimes the <<rule, entry, identifier>> it came from
    matchlog,     \* for each schedule entry processed: the outcome of the match condition
    urls,         \* indices of the payloads whose request URL was logged
    posts,        \* posts[n]: number of requests.post calls made for downtimes[n]
    ok,           \* ok[n]: a call for downtimes[n] returned status 200
    sleeps,       \* sleeps[n]: number of sleep calls made while delivering downtimes[n]
    last,         \* the outcome of the latest requests.post call
    cause         \* why the script ended

vars == <<retries, simulation, content, pc, date_object, i, j, payload, downtimes,
          d, retry, exit_status, origin, matchlog, urls, posts, ok, sleeps, last, cause>>

(***************************************************************************)
(* Bounds of the model.                                                    *)
(***************************************************************************)
MaxRetries == 2     \* retries ranges over -1 .. MaxRetries
MaxRules == 2       \* the downtime file holds at most MaxRules rules

Running == 0 - 1    \* exit_status of a script that has not exited

(***************************************************************************)
(* Dictionaries.                                                           *)
(***************************************************************************)
EmptyDict == [k \in {} |-> 0]

Has(dict, k) == k \in DOMAIN dict

Put(dict, k, v) == [x \in (DOMAIN dict) \cup {k} |-> IF x = k THEN v ELSE dict[x]]

Without(dict, k) == [x \in (DOMAIN dict) \ {k} |-> dict[x]]

HasAll(dict, keys) == \A n \in 1..Len(keys) : Has(dict, keys[n])

(***************************************************************************)
(* datetime: the calendar arithmetic of the library calls the script       *)
(* makes (isoweekday, strftime("%s")).  The local time zone is taken to be *)
(* UTC, so that the epoch of a local time is days * 86400 + seconds of day.*)
(***************************************************************************)
DaysFromCivil(y, m, dd) ==
    LET yy  == IF m <= 2 THEN y - 1 ELSE y
        era == yy \div 400
        yoe == yy - era * 400
        mp  == IF m > 2 THEN m - 3 ELSE m + 9
        doy == (153 * mp + 2) \div 5 + dd - 1
        doe == yoe * 365 + yoe \div 4 - yoe \div 100 + doy
    IN  era * 146097 + doe - 719468

\* datetime.isoweekday(): Monday is 1, Sunday is 7
IsoWeekday(dt) == ((DaysFromCivil(dt.year, dt.month, dt.day) + 3) % 7) + 1

\* int(datetime.strftime("%s")): seconds since the epoch
Epoch(dt) ==
    ((DaysFromCivil(dt.year, dt.month, dt.day) * 24 + dt.hour) * 60 + dt.minute) * 60
        + dt.second

\* str() of an integer 1..7
Digits == <<"0", "1", "2", "3", "4", "5", "6", "7", "8", "9">>
Str(n) == <<Digits[n + 1]>>

\* needle in haystack, for two strings
Contains(needle, haystack) ==
    \E k \in 0..(Len(haystack) - Len(needle)) :
        SubSeq(haystack, k + 1, k + Len(needle)) = needle

(***************************************************************************)
(* The schedule condition, lines 232-236:                                  *)
(*    A or B and C or D and E                                              *)
(* which Python reads as A or (B and C) or (D and E), evaluating left to   *)
(* right and only as far as needed.  A subscript of a key that is absent   *)
(* raises KeyError.  The value is "T", "F" or "KeyError".                  *)
(***************************************************************************)
TypeIs(schedule, t) ==
    IF ~Has(schedule, "type") THEN "KeyError"
    ELSE IF schedule["type"] = t THEN "T" ELSE "F"

WeekDayHit(schedule, dt) ==
    IF ~Has(schedule, "week_day") THEN "KeyError"
    ELSE IF Contains(Str(IsoWeekday(dt)), schedule["week_day"]) THEN "T" ELSE "F"

MonthDayHit(schedule, dt) ==
    IF ~Has(schedule, "day") THEN "KeyError"
    ELSE IF dt.day = schedule["day"] THEN "T" ELSE "F"

\* a and b
PyAnd(a, b) == IF a = "T" THEN b ELSE a

\* a or b
PyOr(a, b) == IF a = "F" THEN b ELSE a

MatchesWrongPrecedence(schedule, dt) ==
    PyOr(PyAnd(PyOr(TypeIs(schedule, "day"), TypeIs(schedule, "week")),
               WeekDayHit(schedule, dt)),
         PyAnd(TypeIs(schedule, "month"), MonthDayHit(schedule, dt)))

Matches(schedule, dt) ==
    PyOr(TypeIs(schedule, "day"),
         PyOr(PyAnd(TypeIs(schedule, "week"), WeekDayHit(schedule, dt)),
              PyAnd(TypeIs(schedule, "month"), MonthDayHit(schedule, dt))))

(***************************************************************************)
(* The log call of lines 238-254 subscripts these keys of the rule and of  *)
(* the schedule entry before anything is built.                            *)
(***************************************************************************)
LogItemKeys ==
    <<"target", "host", "service", "hostgroup", "servicegroup", "backends", "fixed",
      "duration", "flex_range">>

LogScheduleKeys == <<"type", "week_day", "day", "hour", "minute">>

ReplaceTimeAndDay(dt, schedule) ==
    [dt EXCEPT !.day = schedule["day"], !.hour = schedule["hour"],
               !.minute = schedule["minute"], !.second = 0]

\* lines 257-259: datetime.replace of hour, minute and second
ReplaceTime(dt, schedule) ==
    [dt EXCEPT !.hour = schedule["hour"], !.minute = schedule["minute"], !.second = 0]

CommonFieldsDurationInSeconds(pl, item, dt) ==
    LET p1 == Put(pl, "cmd_mod", 2)
        p2 == Put(p1, "fixed", 1)
        p3 == Put(p2, "com_data", item["comment"])
        p4 == Put(p3, "com_author", "Nagios")
        p5 == Put(p4, "start_time", Epoch(dt))
        p6 == Put(p5, "end_time", p5["start_time"] + item["duration"])
        p7 == Put(p6, "childoptions", item["childoptions"])
    IN  Put(p7, "backend", item["backends"])

\* lines 262-269: the fields every payload carries
CommonFields(pl, item, dt) ==
    LET p1 == Put(pl, "cmd_mod", 2)
        p2 == Put(p1, "fixed", 1)
        p3 == Put(p2, "com_data", item["comment"])
        p4 == Put(p3, "com_author", "Nagios")
        p5 == Put(p4, "start_time", Epoch(dt))
        p6 == Put(p5, "end_time", p5["start_time"] + item["duration"] * 60)
        p7 == Put(p6, "childoptions", item["childoptions"])
    IN  Put(p7, "backend", item["backends"])

TargetDispatchDefaultsToHost(target) ==
    IF target = "service" THEN [supported |-> TRUE, cmd_typ |-> 56, key |-> "host", service |-> TRUE]
    ELSE IF target = "hostgroup" THEN [supported |-> TRUE, cmd_typ |-> 84, key |-> "hostgroup", service |-> FALSE]
    ELSE IF target = "servicegroup" THEN [supported |-> TRUE, cmd_typ |-> 122, key |-> "servicegroup", service |-> FALSE]
    ELSE [supported |-> TRUE, cmd_typ |-> 55, key |-> "host", service |-> FALSE]

\* lines 272-290: command code and target key of a target type
TargetDispatch(target) ==
    IF target = "host" THEN [supported |-> TRUE, cmd_typ |-> 55, key |-> "host", service |-> FALSE]
    ELSE IF target = "service" THEN [supported |-> TRUE, cmd_typ |-> 56, key |-> "host", service |-> TRUE]
    ELSE IF target = "hostgroup" THEN [supported |-> TRUE, cmd_typ |-> 84, key |-> "hostgroup", service |-> FALSE]
    ELSE IF target = "servicegroup" THEN [supported |-> TRUE, cmd_typ |-> 122, key |-> "servicegroup", service |-> FALSE]
    ELSE [supported |-> FALSE, cmd_typ |-> 0, key |-> "", service |-> FALSE]

\* lines 273-284: what the dispatch writes into the payload
TypeFields(pl, item, disp) ==
    LET p1 == Put(pl, "cmd_typ", disp.cmd_typ)
    IN  IF disp.service THEN Put(p1, "service", item["service"]) ELSE p1

ExpandRepeatsFirst(pl, key, idents) ==
    [n \in 1..Len(idents) |-> Put(pl, key, idents[1])]

ExpandOnce(pl, key, idents) ==
    IF Len(idents) = 0 THEN <<>> ELSE <<Put(pl, key, idents[1])>>

ExpandReversed(pl, key, idents) ==
    [n \in 1..Len(idents) |-> Put(pl, key, idents[Len(idents) + 1 - n])]

\* lines 293-298: one copy of the payload per identifier, in identifier order
Expand(pl, key, idents) ==
    [n \in 1..Len(idents) |-> Put(pl, key, idents[n])]

\* the payload dictionary after the loop of lines 293-298
AfterExpand(pl, key, idents) ==
    IF Len(idents) = 0 THEN pl ELSE Put(pl, key, idents[Len(idents)])

(***************************************************************************)
(* One iteration of the schedule loop, lines 229-298, for rule item and    *)
(* entry schedule, with the datetime dt and the payload dictionary pl as   *)
(* the iteration finds them.                                               *)
(*   raised  : a KeyError was raised (nothing catches it)                  *)
(*   matched : the value of the condition of lines 232-236                 *)
(*   date    : date_object afterwards                                      *)
(*   payload : the payload dictionary afterwards                           *)
(*   out     : the payloads appended to downtimes                          *)
(***************************************************************************)
Unchanged(m, dt, pl, raised) ==
    [raised |-> raised, matched |-> m, date |-> dt, payload |-> pl, out |-> <<>>]

BuildEntry(item, schedule, dt, pl) ==
    LET m == Matches(schedule, dt) IN
    IF m = "KeyError" THEN Unchanged(m, dt, pl, TRUE)
    ELSE IF m = "F" THEN Unchanged(m, dt, pl, FALSE)
    ELSE IF ~(HasAll(item, LogItemKeys) /\ HasAll(schedule, LogScheduleKeys))
        THEN Unchanged(m, dt, pl, TRUE)
    ELSE LET dt2 == ReplaceTime(dt, schedule) IN
    IF ~(Has(item, "comment") /\ Has(item, "childoptions"))
        THEN Unchanged(m, dt2, pl, TRUE)
    ELSE LET p1   == CommonFields(pl, item, dt2)
             disp == TargetDispatch(item["target"])
         IN
    IF ~disp.supported THEN Unchanged(m, dt2, p1, FALSE)
    ELSE LET p2 == TypeFields(p1, item, disp)
             idents == item[disp.key]
         IN  [raised |-> FALSE, matched |-> m, date |-> dt2,
              payload |-> AfterExpand(p2, disp.key, idents),
              out |-> Expand(p2, disp.key, idents)]

StoreShared(list, org, rule, r) ==
    [n \in 1..(Len(list) + Len(r.out)) |->
        IF n > Len(list) \/ org[n][1] = rule THEN r.payload ELSE list[n]]

\* line 298: downtimes.append(payload.copy()).  The list holds copies, so what
\* the iteration r of rule number rule does to the payload dictionary leaves
\* the elements already in the list (which org says come from which rule) alone.
Store(list, org, rule, r) == list \o r.out

NewPayloadKept(old) == old

\* line 226: payload = dict(), in place of the dictionary of the rule before
NewPayload(old) == EmptyDict

(***************************************************************************)
(* requests.post: what one call can end in.  exc is "none" when the call   *)
(* returns a response, whose status code is status; otherwise the class of *)
(* the exception raised.  Bases is the class hierarchy of                  *)
(* requests.exceptions: ConnectTimeout derives from both ConnectionError   *)
(* and Timeout, ReadTimeout from Timeout alone.                            *)
(***************************************************************************)
Response(status) == [exc |-> "none", status |-> status]

Raised(exc) == [exc |-> exc, status |-> 0]

NoCall == [exc |-> "nocall", status |-> 0]

Outcomes ==
    {Response(200), Response(500)}
        \cup {Raised(e) : e \in {"ConnectionError", "HTTPError", "TooManyRedirects",
                                 "ConnectTimeout", "ReadTimeout", "ValueError"}}

Bases(cls) ==
    CASE cls = "ConnectTimeout"   -> {"ConnectionError", "Timeout"}
      [] cls = "ReadTimeout"      -> {"Timeout"}
      [] cls = "ConnectionError"  -> {"RequestException"}
      [] cls = "HTTPError"        -> {"RequestException"}
      [] cls = "TooManyRedirects" -> {"RequestException"}
      [] cls = "Timeout"          -> {"RequestException"}
      [] cls = "RequestException" -> {"IOError"}
      [] cls = "IOError"          -> {"Exception"}
      [] cls = "ValueError"       -> {"Exception"}
      [] OTHER                    -> {}

RECURSIVE IsSubclass(_, _)
IsSubclass(cls, of) == cls = of \/ \E b \in Bases(cls) : IsSubclass(b, of)

(***************************************************************************)
(* The except clauses of lines 352-363, in the order Python tries them.    *)
(***************************************************************************)
HandlerAllRetried(exc) ==
    IF IsSubclass(exc, "Timeout") THEN "timeout" ELSE "unknown"

Handler(exc) ==
    IF \E c \in {"ConnectionError", "HTTPError", "TooManyRedirects"} : IsSubclass(exc, c)
        THEN "permanent"
    ELSE IF IsSubclass(exc, "Timeout") THEN "timeout"
    ELSE "unknown"

\* line 319: the number of iterations range(options.retries + 1) allows
Attempts(r) == r + 1

\* line 366: after a failed attempt, sleep and go round again, or give up
AfterFailureSleepsFirst(r, n) == IF r > 0 THEN "sleep" ELSE "exit"

AfterFailureOffByOne(r, n) == IF r > 0 /\ n <= r THEN "sleep" ELSE "exit"

AfterFailureNoSleepOnLast(r, n) == IF r > 0 /\ n < r - 1 THEN "sleep" ELSE "exit"

AfterFailure(r, n) == IF r > 0 /\ n < r THEN "sleep" ELSE "exit"

\* line 339: the status code that ends the retry loop
IsSuccess(status) == status = 200

AttemptResultNoBreak(o, r, n) ==
    IF o.exc = "none" THEN AfterFailure(r, n)
    ELSE IF Handler(o.exc) = "permanent" THEN "exit permanent"
    ELSE AfterFailure(r, n)

\* lines 328-376: where one iteration of the retry loop goes once the
\* request has ended in outcome o, in iteration n of a loop of r retries
AttemptResult(o, r, n) ==
    IF o.exc = "none"
        THEN IF IsSuccess(o.status) THEN "break" ELSE AfterFailure(r, n)
    ELSE IF Handler(o.exc) = "permanent" THEN "exit permanent"
    ELSE AfterFailure(r, n)

\* line 315: whether the delivery loop skips the request
SkipsRequestNever(sim) == FALSE

SkipsRequest(sim) == sim

(***************************************************************************)
(* Inputs.  Two families of downtime files:                                *)
(*  - PipelineContents: up to MaxRules different rules of Rules; Rules    *)
(*    holds one                                                            *)
(*    rule per target type, rules with one and with two schedule entries,  *)
(*    with one and with two identifiers, a rule with an unknown target and *)
(*    a rule that lacks a field;                                           *)
(*  - MatchContents: one host rule with one schedule entry, the entry      *)
(*    ranging over every combination of type, week_day and day, each of    *)
(*    the two also absent.                                                 *)
(***************************************************************************)
Entry(type, week_day, day, hour, minute) ==
    [type |-> type, week_day |-> week_day, day |-> day, hour |-> hour, minute |-> minute]

Rule(target, host, hostgroup, servicegroup, duration, schedule) ==
    [target |-> target, host |-> host, service |-> "svc", hostgroup |-> hostgroup,
     servicegroup |-> servicegroup, backends |-> "be", fixed |-> 1, duration |-> duration,
     flex_range |-> 0, comment |-> "maintenance", childoptions |-> 0,
     schedule |-> schedule]

EveryDay == Entry("day", <<>>, 0, 2, 0)

HostRule == Rule("host", <<"h1">>, <<>>, <<>>, 30, <<EveryDay>>)

ServiceRule ==
    Rule("service", <<"h1">>, <<>>, <<>>, 60,
         <<EveryDay, Entry("week", <<"1", ",", "3">>, 0, 3, 30)>>)

HostgroupRule ==
    Rule("hostgroup", <<>>, <<"A", "B">>, <<>>, 45,
         <<Entry("week", <<"3">>, 0, 1, 0), Entry("month", <<>>, 2, 4, 15)>>)

ServicegroupRule ==
    Rule("servicegroup", <<>>, <<>>, <<"sg1">>, 15,
         <<Entry("week", <<"2">>, 0, 5, 0), Entry("month", <<>>, 1, 6, 0)>>)

UnknownTargetRule ==
    Rule("contact", <<"h1">>, <<>>, <<>>, 30,
         <<EveryDay, Entry("week", <<"1", ",", "2">>, 0, 3, 30)>>)

NoCommentRule == Without(Rule("host", <<"h3">>, <<>>, <<>>, 30, <<EveryDay>>), "comment")

Rules ==
    {HostRule, ServiceRule, HostgroupRule, ServicegroupRule, UnknownTargetRule,
     NoCommentRule}

PipelineContents ==
    {c \in UNION {[1..n -> Rules] : n \in 0..MaxRules} :
        \A m, n \in 1..Len(c) : m # n => c[m] # c[n]}

WeekDayStrings == {<<>>, <<"1">>, <<"2">>, <<"1", ",", "3">>, <<"2", ",", "7">>}

MatchEntries ==
    LET full == {Entry(t, w, dd, 7, 20) : t \in {"day", "week", "month", "year"},
                                          w \in WeekDayStrings, dd \in 1..3}
    IN  full \cup {Without(e, "week_day") : e \in full} \cup {Without(e, "day") : e \in full}

MatchContents == {<<Rule("host", <<"h1">>, <<>>, <<>>, 30, <<e>>)>> : e \in MatchEntries}

\* what datetime.now() can return: Monday 2015-06-01 and Tuesday 2015-06-02
Instants ==
    {[year |-> 2015, month |-> 6, day |-> 1, hour |-> 13, minute |-> 45, second |-> 27],
     [year |-> 2015, month |-> 6, day |-> 2, hour |-> 9, minute |-> 5, second |-> 59]}

(***************************************************************************)
(* The state after the command line is parsed and the file is read         *)
(* (line 197).  date_object holds what datetime.now() returns at line 210. *)
(***************************************************************************)
Init ==
    /\ retries \in (0 - 1)..MaxRetries
    /\ simulation \in BOOLEAN
    /\ \/ content \in PipelineContents
       \/ content \in MatchContents /\ simulation
    /\ date_object \in Instants
    /\ pc = "start"
    /\ i = 0
    /\ j = 0
    /\ payload = EmptyDict
    /\ downtimes = <<>>
    /\ d = 0
    /\ retry = 0
    /\ exit_status = Running
    /\ origin = <<>>
    /\ matchlog = <<>>
    /\ urls = {}
    /\ posts = <<>>
    /\ ok = <<>>
    /\ sleeps = <<>>
    /\ last = NoCall
    /\ cause = "running"

\* exit(status), and the end of the script
Exit(status, why) ==
    /\ pc' = "done"
    /\ exit_status' = status
    /\ cause' = why

\* lines 199-221: nothing to do for an empty file, else start the rule loop
Startup ==
    /\ pc = "start"
    /\ IF Len(content) = 0
         THEN Exit(0, "no downtimes")
         ELSE /\ pc' = "build"
              /\ UNCHANGED <<exit_status, cause>>
    /\ UNCHANGED <<retries, simulation, content, date_object, i, j, payload, downtimes,
                   d, retry, origin, matchlog, urls, posts, ok, sleeps, last>>

\* the schedule loop of the current rule is used up (or no rule was started)
ScheduleDone == IF i = 0 THEN TRUE ELSE j > Len(content[i]["schedule"])

\* lines 224-229: the next rule, with a fresh payload dictionary
NextItem ==
    /\ pc = "build"
    /\ ScheduleDone
    /\ i < Len(content)
    /\ i' = i + 1
    /\ payload' = NewPayload(payload)
    /\ j' = 1
    /\ IF Has(content[i + 1], "schedule")
         THEN UNCHANGED <<pc, exit_status, cause>>
         ELSE Exit(1, "KeyError")
    /\ UNCHANGED <<retries, simulation, content, date_object, downtimes,
                   d, retry, origin, matchlog, urls, posts, ok, sleeps, last>>

\* lines 229-298: one schedule entry of the current rule
ProcessSchedule ==
    /\ pc = "build"
    /\ ~ScheduleDone
    /\ LET item == content[i]
           r    == BuildEntry(item, item["schedule"][j], date_object, payload)
           n    == Len(r.out)
       IN  /\ date_object' = r.date
           /\ payload' = r.payload
           /\ downtimes' = Store(downtimes, origin, i, r)
           /\ origin' = origin \o [k \in 1..n |-> <<i, j, k>>]
           /\ posts' = posts \o [k \in 1..n |-> 0]
           /\ ok' = ok \o [k \in 1..n |-> FALSE]
           /\ sleeps' = sleeps \o [k \in 1..n |-> 0]
           /\ matchlog' = Append(matchlog, [rule |-> i, entry |-> j, matched |-> r.matched])
           /\ IF r.raised
                THEN Exit(1, "KeyError")
                ELSE UNCHANGED <<pc, exit_status, cause>>
    /\ j' = j + 1
    /\ UNCHANGED <<retries, simulation, content, i, d, retry, urls, last>>

\* line 301: the rule loop is over, the delivery loop starts
EndBuild ==
    /\ pc = "build"
    /\ ScheduleDone
    /\ i = Len(content)
    /\ pc' = "deliver"
    /\ d' = 1
    /\ UNCHANGED <<retries, simulation, content, date_object, i, j, payload, downtimes,
                   retry, exit_status, origin, matchlog, urls, posts, ok, sleeps, last, cause>>

\* lines 301-319: log the request URL of the next payload; skip the request in
\* simulation mode, else enter the retry loop (which range() may leave empty)
Call ==
    /\ pc = "deliver"
    /\ d <= Len(downtimes)
    /\ urls' = urls \cup {d}
    /\ IF SkipsRequest(simulation) \/ Attempts(retries) <= 0
         THEN /\ d' = d + 1
              /\ UNCHANGED <<pc, retry>>
         ELSE /\ pc' = "post"
              /\ retry' = 0
              /\ d' = d
    /\ UNCHANGED <<retries, simulation, content, date_object, i, j, payload, downtimes,
                   exit_status, origin, matchlog, posts, ok, sleeps, last, cause>>

\* lines 328-376: one attempt.  The request is issued and ends in outcome o;
\* status 200 leaves the retry loop, a permanent error exits, anything else
\* goes on to the retry logic of line 366.
Post ==
    /\ pc = "post"
    /\ \E o \in Outcomes :
        LET res == AttemptResult(o, retries, retry) IN
        /\ last' = o
        /\ posts' = [posts EXCEPT ![d] = @ + 1]
        /\ ok' = [ok EXCEPT ![d] = @ \/ o = Response(200)]
        /\ d' = IF res = "break" THEN d + 1 ELSE d
        /\ IF res = "break"
             THEN pc' = "deliver" /\ UNCHANGED <<exit_status, cause>>
             ELSE IF res = "sleep"
             THEN pc' = "sleep" /\ UNCHANGED <<exit_status, cause>>
             ELSE IF res = "exit permanent"
             THEN Exit(1, "permanent")
             ELSE Exit(1, "retry limit")
    /\ UNCHANGED <<retries, simulation, content, date_object, i, j, payload, downtimes,
                   retry, origin, matchlog, urls, sleeps>>

\* line 370 and back to line 319: the sleep returns and the loop goes round,
\* or ends when range() is used up
Sleep ==
    /\ pc = "sleep"
    /\ sleeps' = [sleeps EXCEPT ![d] = @ + 1]
    /\ IF retry + 1 < Attempts(retries)
         THEN /\ retry' = retry + 1
              /\ pc' = "post"
              /\ d' = d
         ELSE /\ pc' = "deliver"
              /\ d' = d + 1
              /\ UNCHANGED retry
    /\ UNCHANGED <<retries, simulation, content, date_object, i, j, payload, downtimes,
                   exit_status, origin, matchlog, urls, posts, ok, last, cause>>

\* lines 378-382: all payloads are through, the script ends
Finish ==
    /\ pc = "deliver"
    /\ d > Len(downtimes)
    /\ Exit(0, "all done")
    /\ UNCHANGED <<retries, simulation, content, date_object, i, j, payload, downtimes,
                   d, retry, origin, matchlog, urls, posts, ok, sleeps, last>>

Next ==
    \/ Startup
    \/ NextItem
    \/ ProcessSchedule
    \/ EndBuild
    \/ Call
    \/ Post
    \/ Sleep
    \/ Finish

Spec == Init /\ [][Next]_vars

(***************************************************************************)
(* Vocabulary of the properties below.                                     *)
(***************************************************************************)
Payloads == 1..Len(downtimes)

Live == ~simulation

\* a connection-level, protocol or redirect-loop failure
PermanentFailure(o) == o.exc \in {"ConnectionError", "HTTPError", "TooManyRedirects"}

\* a response whose status is not 200
FailedStatus(o) == o.exc = "none" /\ o.status # 200

\* a timeout while connecting or while reading the response
TimedOut(o) == o.exc \in {"ConnectTimeout", "ReadTimeout"}

\* an exception that is neither of the above
UnknownError(o) == o.exc = "ValueError"

RetryableFailure(o) == FailedStatus(o) \/ TimedOut(o) \/ UnknownError(o)

Aborted == pc = "done" /\ exit_status = 1

NoLaterAttempt == \A e \in Payloads : e > d => posts[e] = 0

\* C1: in live mode an attempt that ends in a connection-level, protocol or
\* redirect-loop failure ends the run at once with exit status 1: the payload
\* is not retried, no sleep follows the attempt, no later payload is attempted
\* and the script takes no further step, whatever the retry count.
C1_PermanentFailureAborts ==
    (Live /\ PermanentFailure(last)) =>
        /\ Aborted
        /\ sleeps[d] = posts[d] - 1
        /\ NoLaterAttempt
        /\ ~ENABLED Next

\* C1 witness: a connection error on the first attempt of a payload that is
\* not the last one, with two retries left, has ended the run.
C1_Witness ==
    /\ Live /\ retries = 2 /\ last = Raised("ConnectionError")
    /\ Aborted /\ d < Len(downtimes) /\ posts[d] = 1 /\ sleeps[d] = 0

\* C2: in live mode no payload receives more than retries + 1 POST attempts,
\* and once an attempt for a payload has returned HTTP 200 the number of
\* attempts for that payload never changes again.
C2_AttemptsBounded ==
    /\ [](Live => \A e \in Payloads : posts[e] <= retries + 1)
    /\ [][Live => \A e \in Payloads : ok[e] => posts'[e] = posts[e]]_vars

\* C2 witness: a payload used all retries + 1 attempts, the last one returned
\* 200, and the run went on to the end.
C2_Witness ==
    /\ Live /\ retries = 2 /\ pc = "done" /\ exit_status = 0
    /\ \E e \in Payloads : posts[e] = 3 /\ ok[e]

\* C3: in live mode, when the last of the retries + 1 attempts of a payload
\* ends in a retryable failure (status other than 200, timeout, unknown
\* exception) the run ends with exit status 1 right after that attempt: no
\* sleep follows it and no later payload is attempted.  With retries = 0 this
\* is after exactly one attempt.
C3_ExhaustionAborts ==
    (Live /\ d \in Payloads /\ RetryableFailure(last) /\ posts[d] = retries + 1) =>
        /\ Aborted
        /\ sleeps[d] = retries
        /\ ~ok[d]
        /\ NoLaterAttempt
        /\ ~ENABLED Next

\* C3 witness: retries = 0, the remote answered 500 to the one attempt of the
\* first of several payloads, and the run has failed.
C3_Witness ==
    /\ Live /\ retries = 0 /\ last = Response(500)
    /\ Aborted /\ d = 1 /\ Len(downtimes) > 1 /\ posts[1] = 1

\* a failure the script goes on after: the retryable failures other than a
\* timeout while connecting
RetriedFailure(o) == FailedStatus(o) \/ o.exc = "ReadTimeout" \/ UnknownError(o)

\* C4: in live mode, after k <= retries failed attempts of a payload, each a
\* status other than 200, a read timeout or an unknown exception, the run is
\* not aborted and attempt k + 1 follows; and when an attempt returns HTTP
\* 200 the payload counts as delivered with that attempt, after exactly one
\* sleep per earlier failed attempt, the run is not aborted and delivery is at
\* the next payload.
C4_SucceedsAfterFailures ==
    /\ (Live /\ d \in Payloads /\ RetriedFailure(last) /\ posts[d] <= retries) =>
            /\ exit_status = Running
            /\ pc \in {"sleep", "post"}
            /\ ~ok[d]
    /\ (pc = "post") => (posts[d] = retry /\ retry <= retries)
    /\ (Live /\ last = Response(200)) =>
            /\ (d - 1) \in Payloads
            /\ ok[d - 1]
            /\ posts[d - 1] \in 1..(retries + 1)
            /\ sleeps[d - 1] = posts[d - 1] - 1
            /\ (d \in Payloads => posts[d] = 0)
            /\ ~Aborted

\* C4 witness: retries = 2, the first payload was answered 500, 500, 200 and
\* the second payload is being attempted.
C4_Witness ==
    /\ Live /\ retries = 2 /\ last = Response(200)
    /\ d = 2 /\ pc = "post" /\ posts[1] = 3 /\ sleeps[1] = 2 /\ ok[1]

\* C5: a timeout of any kind, while connecting or while reading the response,
\* counts as a failed attempt and is retried: while attempts remain for the
\* payload it never aborts the run.
C5_TimeoutsAreRetried ==
    (Live /\ d \in Payloads /\ TimedOut(last) /\ posts[d] <= retries) =>
        /\ exit_status = Running
        /\ pc \in {"sleep", "post"}

\* every key the script reads is present in every rule and schedule entry
RuleKeys ==
    {"target", "host", "service", "hostgroup", "servicegroup", "backends", "fixed",
     "duration", "flex_range", "comment", "childoptions", "schedule"}

EntryKeys == {"type", "week_day", "day", "hour", "minute"}

WellFormedEntry(e) == EntryKeys \subseteq DOMAIN e

WellFormedRule(r) ==
    /\ RuleKeys \subseteq DOMAIN r
    /\ \A n \in 1..Len(r["schedule"]) : WellFormedEntry(r["schedule"][n])

WellFormed == \A n \in 1..Len(content) : WellFormedRule(content[n])

\* C6: in simulation mode no request is ever issued and no retry sleep is
\* made, whatever the retry count; and for a well-formed rule list the run
\* ends with exit status 0 having logged the request URL of every collected
\* payload.
C6_SimulationIssuesNoRequest ==
    simulation =>
        /\ last = NoCall
        /\ pc \notin {"post", "sleep"}
        /\ \A e \in Payloads : posts[e] = 0 /\ sleeps[e] = 0 /\ ~ok[e]
        /\ (WellFormed /\ pc = "done") => (exit_status = 0 /\ urls = Payloads)

\* C6 witness: a simulation run with two retries configured ended with status
\* 0 after logging the URLs of three payloads.
C6_Witness ==
    /\ simulation /\ retries = 2 /\ WellFormed
    /\ pc = "done" /\ exit_status = 0 /\ Len(downtimes) = 3 /\ urls = 1..3

\* the key that carries the identifier of a target type
KeyOf(target) == IF target \in {"host", "service"} THEN "host" ELSE target

\* lexicographic order on <<rule, entry, identifier>>
Before(a, b) ==
    \/ a[1] < b[1]
    \/ a[1] = b[1] /\ a[2] < b[2]
    \/ a[1] = b[1] /\ a[2] = b[2] /\ a[3] < b[3]

\* C7: the delivery list is in rule order, then schedule-entry order, then
\* identifier order, each payload carrying the identifier at its position in
\* the rule; a payload is attempted only after every earlier payload has
\* received HTTP 200, and no payload is attempted after a later one was.
C7_SequentialInOrder ==
    /\ [](/\ \A m, n \in Payloads : m < n => Before(origin[m], origin[n])
          /\ \A n \in Payloads :
                LET item == content[origin[n][1]]
                    key  == KeyOf(item["target"])
                IN  downtimes[n][key] = item[key][origin[n][3]]
          /\ \A e \in Payloads : posts[e] > 0 => \A f \in 1..(e - 1) : ok[f])
    /\ [][\A e \in Payloads :
            posts'[e] # posts[e] => \A f \in Payloads : f > e => posts[f] = 0]_vars

\* C7 witness: a live run delivered the payloads of two rules, among them one
\* of a second schedule entry and one of a second identifier.
C7_Witness ==
    /\ Live /\ pc = "done" /\ exit_status = 0
    /\ \A e \in Payloads : ok[e]
    /\ \E n \in Payloads : origin[n][1] = 2 /\ origin[n][2] = 2 /\ origin[n][3] = 2
    /\ \E n \in Payloads : origin[n][1] = 1

\* C8: in live mode a run that ends with exit status 0 has delivered every
\* collected payload with an HTTP 200 response, for every retry count the
\* command line accepts.
C8_ExitZeroMeansAllDelivered ==
    (Live /\ pc = "done" /\ exit_status = 0) => \A e \in Payloads : ok[e]

\* the instants of the model: 2015-06-01 is a Monday, 2015-06-02 a Tuesday
Today == [weekday |-> IF date_object.day = 1 THEN 1 ELSE 2, day |-> date_object.day]

\* the schedule entry a line of matchlog is about
EntryOf(line) == content[line.rule]["schedule"][line.entry]

\* the entry holds the field its type consults
Consulted(e) ==
    /\ Has(e, "type")
    /\ e["type"] = "week" => Has(e, "week_day")
    /\ e["type"] = "month" => Has(e, "day")

ShouldMatch(e) ==
    IF e["type"] = "day" THEN TRUE
    ELSE IF e["type"] = "week"
        THEN \E n \in 1..Len(e["week_day"]) : e["week_day"][n] = Digits[Today.weekday + 1]
    ELSE IF e["type"] = "month" THEN e["day"] = Today.day
    ELSE FALSE

\* C9: a schedule entry matches iff its type is day, or its type is week and
\* today's ISO weekday occurs in week_day, or its type is month and today's
\* day of the month equals day; the fields the type does not consult, present
\* or not, make no difference.
C9_MatchCondition ==
    \A n \in 1..Len(matchlog) :
        Consulted(EntryOf(matchlog[n])) =>
            /\ matchlog[n].matched \in {"T", "F"}
            /\ matchlog[n].matched = "T" <=> ShouldMatch(EntryOf(matchlog[n]))

\* C9 witness: an entry of type day matched although its day is not today's
\* and its week_day does not list today.
C9_Witness ==
    \E n \in 1..Len(matchlog) :
        LET e == EntryOf(matchlog[n]) IN
        /\ e["type"] = "day" /\ matchlog[n].matched = "T"
        /\ Has(e, "day") /\ e["day"] # Today.day
        /\ Has(e, "week_day") /\ ~Contains(<<Digits[Today.weekday + 1]>>, e["week_day"])

\* C10: a rule with an absent field never ends the run: the rule is skipped
\* and the run goes on with the other rules.
C10_MalformedRuleIsSkipped ==
    ~WellFormed => cause # "KeyError"

(***************************************************************************)
(* Vocabulary of the properties of the delivery list.                      *)
(***************************************************************************)
SupportedTargets == {"host", "service", "hostgroup", "servicegroup"}

\* the rule, schedule entry and identifier number payload n was built from
RuleOf(n) == content[origin[n][1]]

ScheduleEntryOf(n) == RuleOf(n)["schedule"][origin[n][2]]

\* the lines of matchlog of rule number r whose condition was true
Matched(r) == {n \in 1..Len(matchlog) : matchlog[n].rule = r /\ matchlog[n].matched = "T"}

\* the payloads built from schedule entry e of rule number r, and from rule r
PayloadsOfEntry(r, e) == {n \in Payloads : origin[n][1] = r /\ origin[n][2] = e}

PayloadsOfRule(r) == {n \in Payloads : origin[n][1] = r}

\* the rule loop is over
Built == pc \in {"deliver", "post", "sleep"} \/ (pc = "done" /\ d >= 1)

\* C11: no payload of the delivery list comes from a rule whose target is
\* none of host, service, hostgroup, servicegroup, however many of its
\* schedule entries match; such a rule does not end the run, and the list
\* holds the payloads of every matching entry of every other rule.
C11_UnsupportedTargetSkipped ==
    /\ \A n \in Payloads : RuleOf(n)["target"] \in SupportedTargets
    /\ (WellFormed /\ pc = "done" /\ ~Built) => Len(content) = 0
    /\ (WellFormed /\ Built) =>
          \A r \in 1..Len(content) :
             \A e \in 1..Len(content[r]["schedule"]) :
                LET sched == content[r]["schedule"][e]
                    target == content[r]["target"]
                IN  Cardinality(PayloadsOfEntry(r, e)) =
                       IF target \in SupportedTargets /\ ShouldMatch(sched)
                         THEN Len(content[r][KeyOf(target)]) ELSE 0

\* C11 witness: a rule with an unknown target had two matching entries, and
\* the rule after it was built and delivered in a live run.
C11_Witness ==
    /\ Live /\ pc = "done" /\ exit_status = 0
    /\ Len(content) = 2 /\ content[1]["target"] = "contact" /\ Cardinality(Matched(1)) = 2
    /\ PayloadsOfRule(2) # {} /\ \A n \in Payloads : ok[n]

\* the epoch of hour:minute:00 UTC on a day of June 2015
\* (2015-06-01 00:00:00 UTC is 1433116800)
EpochOn(day, hour, minute) ==
    1433116800 + (day - 1) * 86400 + hour * 3600 + minute * 60

\* C12: no step of the run changes the year, month or day of the reference
\* instant (building a payload overrides hour, minute and second only), and
\* the start_time of every payload is hour:minute:00 of its schedule entry on
\* that date.
C12_DateNeverAltered ==
    /\ [][/\ date_object'.year = date_object.year
          /\ date_object'.month = date_object.month
          /\ date_object'.day = date_object.day]_vars
    /\ [](\A n \in Payloads :
             downtimes[n]["start_time"] =
                 EpochOn(date_object.day, ScheduleEntryOf(n)["hour"],
                         ScheduleEntryOf(n)["minute"]))

\* C12 witness: on 2015-06-01 a rule was matched on its day of the month
\* after two entries of the rule before it had matched and rewritten the
\* time of day; its payload starts at 06:00:00 of that day.
C12_Witness ==
    /\ Cardinality(Matched(1)) = 2
    /\ \E n \in Payloads :
          /\ origin[n][1] = 2 /\ ScheduleEntryOf(n)["type"] = "month"
          /\ downtimes[n]["start_time"] = EpochOn(1, 6, 0)
    /\ date_object.day = 1 /\ date_object.hour = 6 /\ date_object.second = 0

\* C13: a matching entry of a well-formed rule with a supported target whose
\* target field holds n identifiers yields exactly n payloads, the k-th
\* carrying the k-th identifier in the target field, and the n payloads agree
\* in every other field.
C13_OnePayloadPerIdentifier ==
    \A m \in 1..Len(matchlog) :
        LET r      == matchlog[m].rule
            e      == matchlog[m].entry
            item   == content[r]
            key    == KeyOf(item["target"])
            mine   == PayloadsOfEntry(r, e)
        IN  (matchlog[m].matched = "T" /\ WellFormedRule(item)
                /\ item["target"] \in SupportedTargets) =>
                /\ {origin[n][3] : n \in mine} = 1..Len(item[key])
                /\ Cardinality(mine) = Len(item[key])
                /\ \A n \in mine : downtimes[n][key] = item[key][origin[n][3]]
                /\ \A n, o \in mine : Without(downtimes[n], key) = Without(downtimes[o], key)

\* C13 witness: hostgroup = <<"A", "B">> gave two payloads, "A" then "B",
\* that differ in hostgroup only.
C13_Witness ==
    \E n \in Payloads :
        /\ (n + 1) \in Payloads
        /\ RuleOf(n)["target"] = "hostgroup"
        /\ downtimes[n]["hostgroup"] = "A" /\ downtimes[n + 1]["hostgroup"] = "B"
        /\ Without(downtimes[n], "hostgroup") = Without(downtimes[n + 1], "hostgroup")
        /\ Cardinality(PayloadsOfRule(origin[n][1])) = 2

\* the rule has a supported target and all its fields
Expandable(r) == WellFormedRule(content[r]) /\ content[r]["target"] \in SupportedTargets

IdentifiersOf(r) == content[r][KeyOf(content[r]["target"])]

\* C14 as stated: a rule that fires today with n target identifiers
\* contributes exactly n payloads, however many of its schedule entries match.
C14_OnePayloadPerRuleAndIdentifier ==
    \A r \in 1..Len(content) :
        (Expandable(r) /\ Matched(r) # {}) =>
            Cardinality(PayloadsOfRule(r)) = Len(IdentifiersOf(r))

\* C14 as amended: a rule with n target identifiers contributes n payloads
\* for each of its schedule entries that matches today: m matching entries
\* give m * n payloads.
C14_OnePayloadPerEntryAndIdentifier ==
    \A r \in 1..Len(content) :
        Expandable(r) =>
            Cardinality(PayloadsOfRule(r)) = Cardinality(Matched(r)) * Len(IdentifiersOf(r))

\* C14 witness: both entries of a rule with one identifier matched and the
\* rule has two payloads in the list.
C14_Witness ==
    \E r \in 1..Len(content) :
        /\ Expandable(r) /\ Len(IdentifiersOf(r)) = 1
        /\ Cardinality(Matched(r)) = 2 /\ Cardinality(PayloadsOfRule(r)) = 2

\* the command code of a target type
CommandCode(target) ==
    CASE target = "host" -> 55
      [] target = "service" -> 56
      [] target = "hostgroup" -> 84
      [] target = "servicegroup" -> 122

\* C15: every payload carries the command code of its rule's target and
\* exactly one of the keys host, hostgroup, servicegroup (host for the targets
\* host and service), and the key service iff the target is service.
C15_TargetFields ==
    \A n \in Payloads :
        LET target == RuleOf(n)["target"] IN
        /\ downtimes[n]["cmd_typ"] = CommandCode(target)
        /\ (DOMAIN downtimes[n]) \cap {"host", "hostgroup", "servicegroup"} = {KeyOf(target)}
        /\ Has(downtimes[n], "service") <=> target = "service"

\* C15 witness: the list holds the two payloads of a service rule with two
\* matching entries and, after them, a payload of a rule with another target.
C15_Witness ==
    /\ Len(content) = 2 /\ content[1]["target"] = "service"
    /\ Cardinality(PayloadsOfRule(1)) = 2
    /\ \E n \in PayloadsOfRule(2) : ~Has(downtimes[n], "service")

\* C16: for every payload end_time - start_time is 60 times the duration of
\* its rule.
C16_EndAfterDuration ==
    \A n \in Payloads :
        downtimes[n]["end_time"] - downtimes[n]["start_time"] = RuleOf(n)["duration"] * 60

\* C16 witness: two payloads of one rule with a duration of 60 minutes, built
\* from entries at different times of day, each end 3600 seconds after its start.
C16_Witness ==
    \E m, n \in Payloads :
        /\ origin[m][1] = origin[n][1] /\ RuleOf(m)["duration"] = 60
        /\ downtimes[m]["start_time"] # downtimes[n]["start_time"]
        /\ downtimes[m]["end_time"] = downtimes[m]["start_time"] + 3600
        /\ downtimes[n]["end_time"] = downtimes[n]["start_time"] + 3600

C18_AppendedPayloadsFrozen ==
    [][\A n \in Payloads : downtimes'[n] = downtimes[n]]_vars

\* C18 witness: the payload dictionary was rewritten for a second matching
\* entry of a rule after a payload of the first entry had been appended, and
\* a later rule added payloads of its own.
C18_Witness ==
    /\ Len(content) = 2 /\ Cardinality(Matched(1)) = 2
    /\ Cardinality(PayloadsOfRule(1)) = 2 /\ PayloadsOfRule(2) # {}
    /\ downtimes[1]["start_time"] # downtimes[2]["start_time"]
    /\ pc = "deliver"

RECURSIVE Sum(_)
Sum(seq) == IF Len(seq) = 0 THEN 0 ELSE seq[1] + Sum(Tail(seq))

\* the counts of the claim, at any moment of the run
WithinBounds ==
    /\ Sum(posts) <= Len(downtimes) * (retries + 1)
    /\ Sum(sleeps) <= Len(downtimes) * retries

\* C19: the run can always take a step until it has ended, it ends with exit
\* status 0 or 1, and (for a well-formed rule list) it has then made at most
\* (number of collected payloads) * (retries + 1) network calls and at most
\* (number of collected payloads) * retries sleeps.
C19_BoundedRun ==
    /\ pc = "done" \/ ENABLED Next
    /\ pc = "done" <=> exit_status \in {0, 1}
    /\ (pc = "done" /\ WellFormed) => WithinBounds

\* for the retry counts from 0 on the counts are within the bounds throughout
\* the run, and a run whose steps are taken as long as one is possible ends
BoundedRunFromZero == retries >= 0 => (C19_BoundedRun /\ WithinBounds)

FairSpec == Spec /\ WF_vars(Next)

Terminates == <>(pc = "done")

=============================================================================
